---- MODULE Spec2Model ----
(***************************************************************************)
(* State model of the two single-page applications of the repository:      *)
(*   R : src/index.tsx          (resources, comments nested per resource)  *)
(*   E : src/unnamed/part_000   (experiences with files, global comments)  *)
(* Definitions prefixed R_ model src/index.tsx, definitions prefixed E_    *)
(* model src/unnamed/part_000; both files use the same identifiers         *)
(* (handleDownload, handleAddComment, analyzeWithGemini), hence the prefix.*)
(*                                                                         *)
(* Text is a sequence of segments.  The segment "\"" is the double-quote   *)
(* character, " " and "\n" are white space, "\\" is the backslash, ","     *)
(* is the comma, "#" is the number sign; every other segment is a run of   *)
(* characters that holds no quote, backslash, comma, number sign or line   *)
(* break and neither starts nor ends with white space.  A number rendered  *)
(* into text is one segment.                                               *)
(***************************************************************************)
EXTENDS Integers, Sequences, FiniteSets, TLC

VARIABLES app, env, resources, experiences, comments, showStats, showAdmin,
          aiAnalysis, isAnalyzing, inflight, store, op

vars == <<app, env, resources, experiences, comments, showStats, showAdmin,
          aiAnalysis, isAnalyzing, inflight, store, op>>

\* ---------------------------------------------------------------- bounds
\* downloads performed beyond the seed counters
MaxDownloads == 2
\* comments accepted beyond the seed comments
MaxComments == 2
\* requests the collaborator can hold at once (caps the counter only)
MaxInflight == 2

\* ------------------------------------------------------------------ text
Quote == "\""
Backslash == "\\"
Newline == "\n"
Comma == ","
Hash == "#"

Str(s) == <<s>>

IsWhiteSpace(c) == c \in {" ", "\n"}

RECURSIVE TrimStart(_)
TrimStart(s) ==
  IF s # <<>> /\ IsWhiteSpace(Head(s)) THEN TrimStart(Tail(s)) ELSE s

RECURSIVE TrimEnd(_)
TrimEnd(s) ==
  IF s # <<>> /\ IsWhiteSpace(s[Len(s)])
    THEN TrimEnd(SubSeq(s, 1, Len(s) - 1))
    ELSE s

\* a trim that removes nothing
TrimNothing(s) == s

\* String.prototype.trim
Trim(s) == TrimEnd(TrimStart(s))

\* JavaScript truthiness of a string: only the empty string is falsy
Truthy(s) == s # <<>>

RECURSIVE Concat(_)
Concat(ss) == IF ss = <<>> THEN <<>> ELSE Head(ss) \o Concat(Tail(ss))

\* a replace that leaves the quotes single
ReplaceQuotesNever(s) == s

\* text.replace(/"/g, '""')
RECURSIVE ReplaceQuotes(_)
ReplaceQuotes(s) ==
  IF s = <<>> THEN <<>>
  ELSE (IF Head(s) = Quote THEN <<Quote, Quote>> ELSE <<Head(s)>>)
       \o ReplaceQuotes(Tail(s))

\* ------------------------------------------------------------------ JSON
\* JSON.stringify of a string: quoted, with quote, backslash and newline
\* escaped by a backslash
RECURSIVE JsonEscape(_)
JsonEscape(s) ==
  IF s = <<>> THEN <<>>
  ELSE (CASE Head(s) = Quote -> <<Backslash, Quote>>
          [] Head(s) = Backslash -> <<Backslash, Backslash>>
          [] Head(s) = Newline -> <<Backslash, "n">>
          [] OTHER -> <<Head(s)>>)
       \o JsonEscape(Tail(s))

JsonString(s) == <<Quote>> \o JsonEscape(s) \o <<Quote>>

\* JSON.parse of a string literal
RECURSIVE JsonUnescape(_)
JsonUnescape(s) ==
  IF s = <<>> THEN <<>>
  ELSE IF Head(s) = Backslash /\ Len(s) >= 2
    THEN <<(IF s[2] = "n" THEN Newline ELSE s[2])>>
         \o JsonUnescape(SubSeq(s, 3, Len(s)))
    ELSE <<Head(s)>> \o JsonUnescape(Tail(s))

JsonParseString(j) == JsonUnescape(SubSeq(j, 2, Len(j) - 1))

\* a serialized object is the sequence of its <<key, value>> members in
\* the object's key order; a serialized array is the sequence of its
\* serialized elements
JsonGet(o, k) == LET i == CHOOSE i \in DOMAIN o : o[i][1] = k IN o[i][2]

\* ------------------------------------------------------ src/index.tsx (R)
R_StringifyComment(c) ==
  << <<"id", c.id>>,
     <<"author", JsonString(c.author)>>,
     <<"text", JsonString(c.text)>>,
     <<"date", JsonString(c.date)>> >>

R_ParseComment(o) ==
  [id |-> JsonGet(o, "id"),
   author |-> JsonParseString(JsonGet(o, "author")),
   text |-> JsonParseString(JsonGet(o, "text")),
   date |-> JsonParseString(JsonGet(o, "date"))]

R_StringifyResource(r) ==
  << <<"id", r.id>>,
     <<"title", JsonString(r.title)>>,
     <<"description", r.description>>,
     <<"type", r.type>>,
     <<"url", r.url>>,
     <<"downloadCount", r.downloadCount>>,
     <<"comments", [i \in DOMAIN r.comments |-> R_StringifyComment(r.comments[i])]>> >>

R_ParseResource(o) ==
  [id |-> JsonGet(o, "id"),
   title |-> JsonParseString(JsonGet(o, "title")),
   description |-> JsonGet(o, "description"),
   type |-> JsonGet(o, "type"),
   url |-> JsonGet(o, "url"),
   downloadCount |-> JsonGet(o, "downloadCount"),
   comments |-> [i \in DOMAIN JsonGet(o, "comments") |-> R_ParseComment(JsonGet(o, "comments")[i])]]

\* JSON.stringify(resources)
R_Stringify(rs) == [i \in DOMAIN rs |-> R_StringifyResource(rs[i])]

\* JSON.parse(saved)
R_Parse(j) == [i \in DOMAIN j |-> R_ParseResource(j[i])]

INITIAL_RESOURCES ==
  << [id |-> "1",
      title |-> Str("Guía de Pautas WCAG 2.1"),
      description |-> "Documento técnico completo sobre los principios de percepción, operación, comprensión y robustez para accesibilidad web.",
      type |-> "pdf",
      url |-> "#",
      downloadCount |-> 156,
      comments |-> << [id |-> "c1",
                       author |-> Str("Dev_Inclusivo"),
                       text |-> Str("Esencial para entender los criterios de conformidad A y AA."),
                       date |-> Str("2023-11-10")] >>],
     [id |-> "2",
      title |-> Str("Podcast: Diseño Universal para el Aprendizaje (DUA)"),
      description |-> "Episodio 01: Estrategias para eliminar barreras en el aula y crear currículos flexibles. Duración: 35 min.",
      type |-> "audio",
      url |-> "#",
      downloadCount |-> 98,
      comments |-> << [id |-> "c2",
                       author |-> Str("Profe_Ana"),
                       text |-> Str("Muy útil la sección sobre múltiples formas de representación."),
                       date |-> Str("2023-11-12")] >>],
     [id |-> "3",
      title |-> Str("Manual de Lectura Fácil"),
      description |-> "Metodologías para la adaptación de textos y creación de contenidos cognitivamente accesibles.",
      type |-> "pdf",
      url |-> "#",
      downloadCount |-> 210,
      comments |-> <<>>] >>

R_KEY == "accesibilidad_resources"

\* --------------------------------------------- src/unnamed/part_000 (E)
E_StringifyFile(f) ==
  << <<"id", f.id>>,
     <<"label", f.label>>,
     <<"filename", JsonString(f.filename)>>,
     <<"count", f.count>> >>

E_ParseFile(o) ==
  [id |-> JsonGet(o, "id"),
   label |-> JsonGet(o, "label"),
   filename |-> JsonParseString(JsonGet(o, "filename")),
   count |-> JsonGet(o, "count")]

E_StringifyExperience(e) ==
  << <<"id", e.id>>,
     <<"title", JsonString(e.title)>>,
     <<"audioSrc", e.audioSrc>>,
     <<"files", [i \in DOMAIN e.files |-> E_StringifyFile(e.files[i])]>> >>

E_ParseExperience(o) ==
  [id |-> JsonGet(o, "id"),
   title |-> JsonParseString(JsonGet(o, "title")),
   audioSrc |-> JsonGet(o, "audioSrc"),
   files |-> [i \in DOMAIN JsonGet(o, "files") |-> E_ParseFile(JsonGet(o, "files")[i])]]

E_StringifyComment(c) ==
  << <<"id", c.id>>,
     <<"author", JsonString(c.author)>>,
     <<"email", JsonString(c.email)>>,
     <<"text", JsonString(c.text)>>,
     <<"date", JsonString(c.date)>> >>

E_ParseComment(o) ==
  [id |-> JsonGet(o, "id"),
   author |-> JsonParseString(JsonGet(o, "author")),
   email |-> JsonParseString(JsonGet(o, "email")),
   text |-> JsonParseString(JsonGet(o, "text")),
   date |-> JsonParseString(JsonGet(o, "date"))]

\* JSON.stringify(experiences), JSON.stringify(comments)
E_StringifyExperiences(es) == [i \in DOMAIN es |-> E_StringifyExperience(es[i])]
E_StringifyComments(cs) == [i \in DOMAIN cs |-> E_StringifyComment(cs[i])]

\* JSON.parse(saved)
E_ParseExperiences(j) == [i \in DOMAIN j |-> E_ParseExperience(j[i])]
E_ParseComments(j) == [i \in DOMAIN j |-> E_ParseComment(j[i])]

INITIAL_EXPERIENCES ==
  << [id |-> 1,
      title |-> Str("1. Escribe con tu voz: experimenta la accesibilidad con TalkBack"),
      audioSrc |-> "exp1-audio.mp3",
      files |-> << [id |-> "e1-f1", label |-> "Descargar Guía Escrita",
                    filename |-> Str("exp1-guia.pdf"), count |-> 0],
                   [id |-> "e1-f2", label |-> "Descargar Plantilla de Observación Docente",
                    filename |-> Str("exp1-observacion-docente.pdf"), count |-> 0],
                   [id |-> "e1-f3", label |-> "Descargar Plantilla de Reflexión Estudiantil",
                    filename |-> Str("exp1-reflexion-estudiante.pdf"), count |-> 0] >>],
     [id |-> 2,
      title |-> Str("2. Descubre con tus oídos: explorando el mundo con Google Lens"),
      audioSrc |-> "exp2-audio.mp3",
      files |-> << [id |-> "e2-f1", label |-> "Descargar Guía Escrita",
                    filename |-> Str("exp2-guia.pdf"), count |-> 0],
                   [id |-> "e2-f2", label |-> "Plantilla de Observación Docente",
                    filename |-> Str("exp2-observacion-docente.pdf"), count |-> 0],
                   [id |-> "e2-f3", label |-> "Plantilla de Reflexión Estudiantil",
                    filename |-> Str("exp2-reflexion-estudiante.pdf"), count |-> 0] >>],
     [id |-> 3,
      title |-> Str("3. Escucha para aprender: acceso a la información escrita con Lookout"),
      audioSrc |-> "exp3-audio.mp3",
      files |-> << [id |-> "e3-f1", label |-> "Descargar Guía Escrita",
                    filename |-> Str("exp3-guia.pdf"), count |-> 0],
                   [id |-> "e3-f2", label |-> "Plantilla de Observación Docente",
                    filename |-> Str("exp3-observacion-docente.pdf"), count |-> 0],
                   [id |-> "e3-f3", label |-> "Plantilla de Reflexión Estudiantil",
                    filename |-> Str("exp3-reflexion-estudiante.pdf"), count |-> 0] >>] >>

E_DATA_KEY == "exp_data_v1"
E_COMMENTS_KEY == "exp_comments_v1"

\* ------------------------------------------------------- Persistent Store
\* localStorage: each key holds no item or the serialized value last set
NoItem == [present |-> FALSE, value |-> <<>>]
Item(v) == [present |-> TRUE, value |-> v]
StoreKeys == {R_KEY, E_DATA_KEY, E_COMMENTS_KEY}
EmptyStore == [k \in StoreKeys |-> NoItem]

\* -------------------------------------------------------------- inputs
\* A reading of the clock is an instant from 1970 to 2037, held as the whole
\* days since 1970-01-01T00:00Z and the milliseconds into that UTC day, so
\* that Date.now() is day * 86400000 + ms.  A handler that builds a comment
\* reads the clock twice: t[1] is what Date.now() returns for the id, t[2]
\* what new Date() holds for the date, taken later in the same call.
At(day, ms) == [day |-> day, ms |-> ms]

\* the decimal digits of n < 100000, all five of them
FiveDigits(n) ==
  IF n < 10 THEN "0000" \o ToString(n)
  ELSE IF n < 100 THEN "000" \o ToString(n)
  ELSE IF n < 1000 THEN "00" \o ToString(n)
  ELSE IF n < 10000 THEN "0" \o ToString(n)
  ELSE ToString(n)

\* Date.now().toString(): the decimal digits of day * 86400000 + ms, written
\* as those of its quotient by 100000 followed by those of the remainder
NowToString(now) ==
  LET high == now.day * 864 + now.ms \div 100000
      low == now.ms % 100000
  IN  IF high = 0 THEN ToString(low) ELSE ToString(high) \o FiveDigits(low)

\* new Date().toISOString().split('T')[0] : the UTC day of t
ToISODate(t) == <<"day-", ToString(t.day)>>

\* the default locale and time zone of the browser, which toLocaleString()
\* follows and toISOString() does not
Environments ==
  { [locale |-> "en-US", zone |-> "UTC"],
    [locale |-> "ja-JP", zone |-> "UTC"],
    [locale |-> "en-US", zone |-> "America/Mexico_City"] }

\* days from 1970-01-01 to the day d of month m of year y
DaysFromCivil(y, m, d) ==
  LET yy == IF m <= 2 THEN y - 1 ELSE y
      era == yy \div 400
      yoe == yy - era * 400
      doy == (153 * ((m + 9) % 12) + 2) \div 5 + d - 1
      doe == yoe * 365 + yoe \div 4 - yoe \div 100 + doy
  IN  era * 146097 + doe - 719468

\* the year a day falls in
YearOf(day) ==
  CHOOSE y \in 1970 .. 2037 :
    DaysFromCivil(y, 1, 1) <= day /\ day < DaysFromCivil(y + 1, 1, 1)

\* the first Sunday that is not before a day (1970-01-01 was a Thursday)
SundayOnOrAfter(day) == day + ((7 - ((day + 4) % 7)) % 7)

\* the instant t is not before ms milliseconds into a day
NotBefore(t, day, ms) == t.day > day \/ (t.day = day /\ t.ms >= ms)

\* daylight saving time is in force in America/Mexico_City at t: from 1996
\* to 2022, from 2:00 standard time of the first Sunday of April to 2:00
\* daylight time of the last Sunday of October (of May and September in 2001)
MexicoDaylightSaving(t) ==
  LET y == YearOf(t.day)
      first == IF y = 2001 THEN 5 ELSE 4
      last == IF y = 2001 THEN 9 ELSE 10
      start == SundayOnOrAfter(DaysFromCivil(y, first, 1))
      end == SundayOnOrAfter(DaysFromCivil(y, last + 1, 1) - 7)
  IN  /\ y \in 1996 .. 2022
      /\ NotBefore(t, start, 8 * 60 * 60 * 1000)
      /\ ~NotBefore(t, end, 7 * 60 * 60 * 1000)

\* milliseconds the local time of a zone is ahead of UTC at the instant t
ZoneOffset(zone, t) ==
  IF zone = "America/Mexico_City"
    THEN IF MexicoDaylightSaving(t) THEN 0 - 5 * 60 * 60 * 1000
                                    ELSE 0 - 6 * 60 * 60 * 1000
    ELSE 0

\* new Date().toLocaleString() in environment e: the local day and the local
\* time to the second, in the locale's notation ("1/1/1970, 12:00:01 AM" in
\* en-US, with a comma; "1970/1/1 0:00:01" in ja-JP, without)
ToLocaleString(t, e) ==
  LET local == t.ms + ZoneOffset(e.zone, t)
      day == t.day + local \div (24 * 60 * 60 * 1000)
      second == t.day * (24 * 60 * 60) + local \div 1000
  IN  IF e.locale = "en-US"
        THEN <<"M/D/YYYY-of-day-", ToString(day),
               Comma, " ", "h:mm:ss-AM/PM-of-second-", ToString(second)>>
        ELSE <<"YYYY/M/D-of-day-", ToString(day),
               " ", "H:mm:ss-of-second-", ToString(second)>>

\* ids handed to handleDownload of index.tsx: the cards clicked and a miss
R_IdInputs == {"1", "3", "9"}

\* comment forms submitted in index.tsx:
\* <<id handed to handleAddComment, authorName, newComment, clock readings>>;
\* the id is the card's resource.id, and one id no resource carries; the
\* last form is submitted as the UTC day changes between the two readings
R_Submissions ==
  { <<"1", <<>>, <<>>, <<At(0, 1), At(0, 1)>> >>,
    <<"9", <<"Ana">>, <<"¿Dónde", " ", "está?">>, <<At(0, 1), At(0, 1)>> >>,
    <<"3", <<"Ana">>, <<" ">>, <<At(0, 1), At(0, 1)>> >>,
    <<"1", <<>>, <<" ", "Muy útil", " ">>, <<At(0, 1), At(0, 1)>> >>,
    <<"1", <<"Ana">>, <<"Muy útil">>, <<At(0, 1), At(0, 1)>> >>,
    <<"3", <<" ">>, <<"Muy útil">>, <<At(0, 1), At(0, 1)>> >>,
    <<"3", <<"Ana">>, <<"Muy útil">>, <<At(0, 86399999), At(1, 0)>> >> }

\* <<expId, fileId>> handed to handleDownload of part_000: links clicked
\* (two files of one experience, one of another) and misses
E_DownloadInputs ==
  { <<1, "e1-f1">>, <<1, "e1-f2">>, <<3, "e3-f3">>,
    <<1, "e3-f3">>, <<4, "e1-f1">> }

\* comment forms submitted in part_000:
\* <<name, email, text, clock readings>>; the "Muy útil" form is submitted
\* as the second changes between the two readings, the one with an email at
\* noon UTC of 2015-07-01, in the daylight saving time of Mexico City
E_Submissions ==
  { << <<>>, <<>>, <<"Muy útil">>, <<At(0, 1), At(0, 1)>> >>,
    << <<"Ana">>, <<>>, <<>>, <<At(0, 2), At(0, 2)>> >>,
    << <<"Ana">>, <<>>, <<" ", Newline>>, <<At(0, 1), At(0, 1)>> >>,
    << <<"Ana">>, <<>>, <<"Muy útil">>, <<At(0, 999), At(0, 1000)>> >>,
    << <<"Ana">>, <<"ana@x.org">>,
       <<"dice", " ", Quote, "hola", Quote, Comma, " ", "sí">>,
       <<At(16617, 43200000), At(16617, 43200000)>> >>,
    << <<"Ana", Quote>>, <<>>, <<" ", "bien", Newline>>, <<At(0, 1), At(0, 1)>> >>,
    << <<"Ana">>, <<>>, <<"tema", " ", Hash, "1", " ", "ok">>, <<At(0, 1), At(0, 1)>> >> }

\* what the text-generation collaborator can answer: response.text
Undefined == <<"undefined">>
Null == <<"null">>
JsString(s) == <<"string", s>>
ResponseTexts == {Undefined, JsString(<<"## Reporte", Newline, "1. Tendencia">>)}

\* ================================================= src/index.tsx (R)
\* useState initializer of resources
R_initResources(saved) ==
  IF saved.present THEN R_Parse(saved.value) ELSE INITIAL_RESOURCES

\* useEffect(..., [resources])
R_persist(st, rs) == [st EXCEPT ![R_KEY] = Item(R_Stringify(rs))]

\* an updater that falls back to the first resource when no id matches
R_downloadUpdaterOrFirst(prev, id) ==
  [i \in DOMAIN prev |->
     IF prev[i].id = id \/ (i = 1 /\ \A k \in DOMAIN prev : prev[k].id # id)
       THEN [prev[i] EXCEPT !.downloadCount = prev[i].downloadCount + 1]
       ELSE prev[i]]

\* the updater handleDownload hands to setResources
R_downloadUpdater(prev, id) ==
  [i \in DOMAIN prev |->
     IF prev[i].id = id
       THEN [prev[i] EXCEPT !.downloadCount = prev[i].downloadCount + 1]
       ELSE prev[i]]

\* the comment handleAddComment builds from the clock readings t
R_newComment(text, author, t) ==
  [id |-> NowToString(t[1]),
   author |-> IF Truthy(author) THEN author ELSE Str("Usuario"),
   text |-> text,
   date |-> ToISODate(t[2])]

\* an updater that counts a comment as a download too
R_addCommentUpdaterCounting(prev, id, newComment) ==
  [i \in DOMAIN prev |->
     IF prev[i].id = id
       THEN [prev[i] EXCEPT !.comments = <<newComment>> \o prev[i].comments,
                            !.downloadCount = prev[i].downloadCount + 1]
       ELSE prev[i]]

\* an updater that puts the new comment after the ones already there
R_addCommentUpdaterAtTail(prev, id, newComment) ==
  [i \in DOMAIN prev |->
     IF prev[i].id = id
       THEN [prev[i] EXCEPT !.comments = prev[i].comments \o <<newComment>>]
       ELSE prev[i]]

\* the updater handleAddComment hands to setResources
R_addCommentUpdater(prev, id, newComment) ==
  [i \in DOMAIN prev |->
     IF prev[i].id = id
       THEN [prev[i] EXCEPT !.comments = <<newComment>> \o prev[i].comments]
       ELSE prev[i]]

\* resources.reduce((acc, r) => acc + r.downloadCount, 0)
RECURSIVE R_reduceDownloads(_, _)
R_reduceDownloads(rs, acc) ==
  IF rs = <<>> THEN acc
  ELSE R_reduceDownloads(Tail(rs), acc + Head(rs).downloadCount)

\* the number the "Descargas Totales" card renders
R_DescargasTotales(rs) == R_reduceDownloads(rs, 0)

\* resources.reduce((acc, r) => acc + r.comments.length, 0)
RECURSIVE R_reduceComments(_, _)
R_reduceComments(rs, acc) ==
  IF rs = <<>> THEN acc
  ELSE R_reduceComments(Tail(rs), acc + Len(Head(rs).comments))

R_Interacciones(rs) == R_reduceComments(rs, 0)

R_frame == UNCHANGED <<app, env, experiences, comments, showAdmin>>

R_handleDownload(id) ==
  /\ app = "R"
  /\ (\E i \in DOMAIN resources : resources[i].id = id)
       => R_DescargasTotales(resources)
            < R_DescargasTotales(INITIAL_RESOURCES) + MaxDownloads
  /\ resources' = R_downloadUpdater(resources, id)
  /\ store' = R_persist(store, resources')
  /\ op' = <<"handleDownload", Str(id)>>
  /\ UNCHANGED <<showStats, aiAnalysis, isAnalyzing, inflight>>
  /\ R_frame

\* ResourceCard.handleSubmitComment, with the handleAddComment it calls
R_handleSubmitComment(id, authorName, newComment, t) ==
  /\ app = "R"
  /\ op' = <<"handleSubmitComment", newComment>>
  /\ UNCHANGED <<showStats, aiAnalysis, isAnalyzing, inflight>>
  /\ R_frame
  /\ IF ~Truthy(Trim(newComment))
       THEN UNCHANGED <<resources, store>>
       ELSE /\ (\E i \in DOMAIN resources : resources[i].id = id)
                 => R_Interacciones(resources)
                      < R_Interacciones(INITIAL_RESOURCES) + MaxComments
            /\ resources' = R_addCommentUpdater(
                              resources, id, R_newComment(newComment, authorName, t))
            /\ store' = R_persist(store, resources')

\* rows.join("\n")
RECURSIVE Join(_, _)
Join(ss, sep) ==
  IF ss = <<>> THEN <<>>
  ELSE IF Len(ss) = 1 THEN Head(ss)
  ELSE Head(ss) \o sep \o Join(Tail(ss), sep)

\* encodeURI(csvContent): each character is either left as it is ("raw") or
\* replaced by its percent escape ("pct").  The comma and the number sign
\* are left; white space, the quote and the backslash are escaped; a run is
\* carried whole, with whatever it holds outside the unreserved set escaped.
EncodeURI(text) ==
  [i \in DOMAIN text |->
     IF text[i] \in {Comma, Hash} THEN <<"raw", text[i]>> ELSE <<"pct", text[i]>>]

\* one template row of exportStats
R_csvRow(r) ==
  <<r.id, Comma, Quote>> \o r.title
    \o <<Quote, Comma, r.type, Comma, ToString(r.downloadCount), Comma,
         ToString(Len(r.comments))>>

\* csvContent of exportStats
R_csvContent(rs) ==
  <<"data:text/csv;charset=utf-8", Comma>>
    \o <<"ID", Comma, "Titulo", Comma, "Tipo", Comma, "Descargas", Comma,
         "Total_Comentarios", Newline>>
    \o Join([i \in DOMAIN rs |-> R_csvRow(rs[i])], <<Newline>>)

\* the CSV button of the stats panel; the link it clicks has the href
\* encodeURI(csvContent)
R_exportStats ==
  /\ app = "R"
  /\ showStats
  /\ op' = <<"exportStats", EncodeURI(R_csvContent(resources))>>
  /\ UNCHANGED <<resources, store, showStats, aiAnalysis, isAnalyzing, inflight>>
  /\ R_frame

\* the header button: setShowStats(!showStats)
R_toggleStats ==
  /\ app = "R"
  /\ showStats' = ~showStats
  /\ op' = <<"setShowStats", <<>> >>
  /\ UNCHANGED <<resources, store, aiAnalysis, isAnalyzing, inflight>>
  /\ R_frame

R_FALLBACK ==
  JsString(<<"Error de conexión con el asistente. Por favor verifica la configuración.">>)

\* the IA Insights button (disabled while isAnalyzing): analyzeWithGemini up
\* to its await; ctorThrows is new GoogleGenAI(...) throwing inside the try
R_analyzeWithGemini(ctorThrows) ==
  /\ app = "R"
  /\ showStats
  /\ ~isAnalyzing
  /\ inflight < MaxInflight
  /\ IF ctorThrows
       THEN /\ aiAnalysis' = R_FALLBACK
            /\ isAnalyzing' = FALSE
            /\ UNCHANGED inflight
       ELSE /\ aiAnalysis' = Null
            /\ isAnalyzing' = TRUE
            /\ inflight' = inflight + 1
  /\ op' = <<"analyzeWithGemini", <<>> >>
  /\ UNCHANGED <<resources, store, showStats>>
  /\ R_frame

\* analyzeWithGemini after the await, generateContent resolved with text
R_analyzeResolved(text) ==
  /\ app = "R"
  /\ inflight > 0
  /\ inflight' = inflight - 1
  /\ aiAnalysis' = text
  /\ isAnalyzing' = FALSE
  /\ op' = <<"analyzeResolved", <<>> >>
  /\ UNCHANGED <<resources, store, showStats>>
  /\ R_frame

\* analyzeWithGemini after the await, generateContent rejected
R_analyzeRejected ==
  /\ app = "R"
  /\ inflight > 0
  /\ inflight' = inflight - 1
  /\ aiAnalysis' = R_FALLBACK
  /\ isAnalyzing' = FALSE
  /\ op' = <<"analyzeRejected", <<>> >>
  /\ UNCHANGED <<resources, store, showStats>>
  /\ R_frame

\* the page is loaded again: the useState initializers and the first run of
\* the effect; cleared is the user having emptied localStorage meanwhile
R_mount(cleared) ==
  /\ app = "R"
  /\ LET st == IF cleared THEN EmptyStore ELSE store IN
       /\ resources' = R_initResources(st[R_KEY])
       /\ store' = R_persist(st, resources')
  /\ showStats' = FALSE
  /\ aiAnalysis' = Null
  /\ isAnalyzing' = FALSE
  /\ inflight' = 0
  /\ op' = <<"mount", <<>> >>
  /\ R_frame

\* ========================================== src/unnamed/part_000 (E)
\* an initializer that ignores what is stored
E_initExperiencesSeedOnly(saved) == INITIAL_EXPERIENCES

\* useState initializers of experiences and comments
E_initExperiences(saved) ==
  IF saved.present THEN E_ParseExperiences(saved.value) ELSE INITIAL_EXPERIENCES

E_initComments(saved) ==
  IF saved.present THEN E_ParseComments(saved.value) ELSE <<>>

\* useEffect(..., [experiences]) and useEffect(..., [comments])
E_persistExperiences(st, es) ==
  [st EXCEPT ![E_DATA_KEY] = Item(E_StringifyExperiences(es))]

\* an effect that stores the comments of the render before
E_persistCommentsStale(st, cs) ==
  [st EXCEPT ![E_COMMENTS_KEY] = Item(E_StringifyComments(comments))]

E_persistComments(st, cs) ==
  [st EXCEPT ![E_COMMENTS_KEY] = Item(E_StringifyComments(cs))]

\* a files.map that forgets to test the file id
E_mapFilesEvery(files, fileId) ==
  [j \in DOMAIN files |-> [files[j] EXCEPT !.count = files[j].count + 1]]

\* exp.files.map(f => f.id === fileId ? { ...f, count: f.count + 1 } : f)
E_mapFiles(files, fileId) ==
  [j \in DOMAIN files |->
     IF files[j].id = fileId
       THEN [files[j] EXCEPT !.count = files[j].count + 1]
       ELSE files[j]]

\* an updater that keeps only the experience downloaded from
E_downloadUpdaterFiltering(prev, expId, fileId) ==
  LET Downloaded(exp) == exp.id = expId
      updated == [i \in DOMAIN prev |->
                    IF prev[i].id # expId
                      THEN prev[i]
                      ELSE [prev[i] EXCEPT !.files = E_mapFiles(prev[i].files, fileId)]]
  IN  SelectSeq(updated, Downloaded)

\* the updater handleDownload hands to setExperiences
E_downloadUpdater(prev, expId, fileId) ==
  [i \in DOMAIN prev |->
     IF prev[i].id # expId
       THEN prev[i]
       ELSE [prev[i] EXCEPT !.files = E_mapFiles(prev[i].files, fileId)]]

\* the comment handleAddComment builds from the clock readings t in
\* environment e
E_newComment(name, email, text, t, e) ==
  [id |-> NowToString(t[1]),
   author |-> name,
   email |-> email,
   text |-> text,
   date |-> ToLocaleString(t[2], e)]

\* exp.files.reduce((a, f) => a + f.count, 0)
RECURSIVE E_reduceFiles(_, _)
E_reduceFiles(fs, a) ==
  IF fs = <<>> THEN a ELSE E_reduceFiles(Tail(fs), a + Head(fs).count)

\* an outer reduce that drops its accumulator
RECURSIVE E_reduceExperiencesNoAcc(_, _)
E_reduceExperiencesNoAcc(es, acc) ==
  IF es = <<>> THEN acc
  ELSE E_reduceExperiencesNoAcc(Tail(es), E_reduceFiles(Head(es).files, 0))

\* experiences.reduce((acc, e) => acc + e.files.reduce(...), 0)
RECURSIVE E_reduceExperiences(_, _)
E_reduceExperiences(es, acc) ==
  IF es = <<>> THEN acc
  ELSE E_reduceExperiences(Tail(es), acc + E_reduceFiles(Head(es).files, 0))

\* the number the "Descargas Totales" card renders
E_DescargasTotales(es) == E_reduceExperiences(es, 0)

E_frame == UNCHANGED <<app, env, resources, showStats>>

E_handleDownload(expId, fileId) ==
  /\ app = "E"
  /\ (\E i \in DOMAIN experiences :
         /\ experiences[i].id = expId
         /\ \E j \in DOMAIN experiences[i].files :
              experiences[i].files[j].id = fileId)
       => E_DescargasTotales(experiences)
            < E_DescargasTotales(INITIAL_EXPERIENCES) + MaxDownloads
  /\ experiences' = E_downloadUpdater(experiences, expId, fileId)
  /\ store' = E_persistExperiences(store, experiences')
  /\ op' = <<"handleDownload", <<>> >>
  /\ UNCHANGED <<comments, showAdmin, aiAnalysis, isAnalyzing, inflight>>
  /\ E_frame

\* CommentForm.handleSubmit, with the handleAddComment it calls as onSubmit
E_handleSubmit(name, email, text, t) ==
  /\ app = "E"
  /\ op' = <<"handleSubmit", text>>
  /\ UNCHANGED <<experiences, showAdmin, aiAnalysis, isAnalyzing, inflight>>
  /\ E_frame
  /\ IF ~Truthy(Trim(name)) \/ ~Truthy(Trim(text))
       THEN UNCHANGED <<comments, store>>
       ELSE /\ Len(comments) < MaxComments
            /\ comments' = <<E_newComment(name, email, text, t, env)>> \o comments
            /\ store' = E_persistComments(store, comments')

\* one row of the downloads section of exportData
E_downloadRow(exp, f) ==
  <<Quote>> \o exp.title \o <<Quote, Comma, Quote>> \o f.filename
    \o <<Quote, Comma, ToString(f.count), Newline>>

\* one row of the comments section of exportData
E_commentRow(c) ==
  <<Quote>> \o c.date \o <<Quote, Comma, Quote>> \o c.author
    \o <<Quote, Comma, Quote>> \o (IF Truthy(c.email) THEN c.email ELSE <<>>)
    \o <<Quote, Comma, Quote>> \o ReplaceQuotes(c.text) \o <<Quote, Newline>>

\* csvContent of exportData
E_csvContent(es, cs) ==
  <<"data:text/csv;charset=utf-8", Comma>>
    \o <<"--- REPORTE DE DESCARGAS ---", Newline>>
    \o <<"Experiencia", Comma, "Archivo", Comma, "Descargas", Newline>>
    \o Concat([i \in DOMAIN es |->
                 Concat([j \in DOMAIN es[i].files |->
                           E_downloadRow(es[i], es[i].files[j])])])
    \o <<Newline, "--- REPORTE DE COMENTARIOS ---", Newline>>
    \o <<"Fecha", Comma, "Autor", Comma, "Email", Comma, "Comentario", Newline>>
    \o Concat([k \in DOMAIN cs |-> E_commentRow(cs[k])])

\* an export that empties the comments once it has reported them
E_exportDataClearing ==
  /\ app = "E"
  /\ showAdmin
  /\ op' = <<"exportData", EncodeURI(E_csvContent(experiences, comments))>>
  /\ comments' = <<>>
  /\ store' = [store EXCEPT ![E_COMMENTS_KEY] = Item(E_StringifyComments(comments'))]
  /\ UNCHANGED <<experiences, showAdmin, aiAnalysis, isAnalyzing, inflight>>
  /\ UNCHANGED <<app, env, resources, showStats>>

\* the report button of the admin panel; the link it clicks has the href
\* encodeURI(csvContent)
E_exportData ==
  /\ app = "E"
  /\ showAdmin
  /\ op' = <<"exportData", EncodeURI(E_csvContent(experiences, comments))>>
  /\ UNCHANGED <<experiences, comments, store, showAdmin, aiAnalysis,
                 isAnalyzing, inflight>>
  /\ E_frame

\* the header button: setShowAdmin(!showAdmin)
E_toggleAdmin ==
  /\ app = "E"
  /\ showAdmin' = ~showAdmin
  /\ op' = <<"setShowAdmin", <<>> >>
  /\ UNCHANGED <<experiences, comments, store, aiAnalysis, isAnalyzing, inflight>>
  /\ E_frame

E_FALLBACK ==
  JsString(<<"Error conectando con la IA. Asegúrate de tener conexión a internet.">>)

\* an analyze button that is never disabled
E_analyzeWithGeminiNotDisabled(ctorThrows) ==
  /\ app = "E"
  /\ showAdmin
  /\ inflight < MaxInflight
  /\ IF ctorThrows
       THEN /\ aiAnalysis' = JsString(<<"Error conectando con la IA. Asegúrate de tener conexión a internet.">>)
            /\ isAnalyzing' = FALSE
            /\ UNCHANGED inflight
       ELSE /\ aiAnalysis' = Null
            /\ isAnalyzing' = TRUE
            /\ inflight' = inflight + 1
  /\ op' = <<"analyzeWithGemini", <<>> >>
  /\ UNCHANGED <<experiences, comments, store, showAdmin>>
  /\ UNCHANGED <<app, env, resources, showStats>>

\* the analyze button (disabled while isAnalyzing): analyzeWithGemini up to
\* its await; ctorThrows is new GoogleGenAI(...) throwing inside the try
E_analyzeWithGemini(ctorThrows) ==
  /\ app = "E"
  /\ showAdmin
  /\ ~isAnalyzing
  /\ inflight < MaxInflight
  /\ IF ctorThrows
       THEN /\ aiAnalysis' = E_FALLBACK
            /\ isAnalyzing' = FALSE
            /\ UNCHANGED inflight
       ELSE /\ aiAnalysis' = Null
            /\ isAnalyzing' = TRUE
            /\ inflight' = inflight + 1
  /\ op' = <<"analyzeWithGemini", <<>> >>
  /\ UNCHANGED <<experiences, comments, store, showAdmin>>
  /\ E_frame

\* a completion that writes back the catalog as the page first had it
E_analyzeResolvedReverting(text) ==
  /\ app = "E"
  /\ inflight > 0
  /\ inflight' = inflight - 1
  /\ aiAnalysis' = text
  /\ isAnalyzing' = FALSE
  /\ experiences' = INITIAL_EXPERIENCES
  /\ store' = [store EXCEPT ![E_DATA_KEY] = Item(E_StringifyExperiences(experiences'))]
  /\ op' = <<"analyzeResolved", <<>> >>
  /\ UNCHANGED <<comments, showAdmin>>
  /\ UNCHANGED <<app, env, resources, showStats>>

\* analyzeWithGemini after the await, generateContent resolved with text
E_analyzeResolved(text) ==
  /\ app = "E"
  /\ inflight > 0
  /\ inflight' = inflight - 1
  /\ aiAnalysis' = text
  /\ isAnalyzing' = FALSE
  /\ op' = <<"analyzeResolved", <<>> >>
  /\ UNCHANGED <<experiences, comments, store, showAdmin>>
  /\ E_frame

\* a catch without the finally: the flag is never cleared
E_analyzeRejectedNoFinally ==
  /\ app = "E"
  /\ inflight > 0
  /\ inflight' = inflight - 1
  /\ aiAnalysis' = E_FALLBACK
  /\ op' = <<"analyzeRejected", <<>> >>
  /\ UNCHANGED <<experiences, comments, store, showAdmin, isAnalyzing>>
  /\ UNCHANGED <<app, env, resources, showStats>>

\* analyzeWithGemini after the await, generateContent rejected
E_analyzeRejected ==
  /\ app = "E"
  /\ inflight > 0
  /\ inflight' = inflight - 1
  /\ aiAnalysis' = E_FALLBACK
  /\ isAnalyzing' = FALSE
  /\ op' = <<"analyzeRejected", <<>> >>
  /\ UNCHANGED <<experiences, comments, store, showAdmin>>
  /\ E_frame

\* the page is loaded again: the useState initializers and the first run of
\* both effects; cleared is the user having emptied localStorage meanwhile
E_mount(cleared) ==
  /\ app = "E"
  /\ LET st == IF cleared THEN EmptyStore ELSE store IN
       /\ experiences' = E_initExperiences(st[E_DATA_KEY])
       /\ comments' = E_initComments(st[E_COMMENTS_KEY])
       /\ store' = E_persistComments(E_persistExperiences(st, experiences'), comments')
  /\ showAdmin' = FALSE
  /\ aiAnalysis' = Null
  /\ isAnalyzing' = FALSE
  /\ inflight' = 0
  /\ op' = <<"mount", <<>> >>
  /\ E_frame

\* ================================================================ system
Init ==
  /\ app \in {"R", "E"}
  \* index.tsx writes its dates with toISOString(), the same in every
  \* environment, so one environment stands for all of them there
  /\ env \in IF app = "E" THEN Environments
                         ELSE {[locale |-> "en-US", zone |-> "UTC"]}
  /\ resources = IF app = "R" THEN R_initResources(NoItem) ELSE <<>>
  /\ experiences = IF app = "E" THEN E_initExperiences(NoItem) ELSE <<>>
  /\ comments = IF app = "E" THEN E_initComments(NoItem) ELSE <<>>
  /\ store = IF app = "R"
               THEN R_persist(EmptyStore, resources)
               ELSE E_persistComments(
                      E_persistExperiences(EmptyStore, experiences), comments)
  /\ showStats = FALSE
  /\ showAdmin = FALSE
  /\ aiAnalysis = Null
  /\ isAnalyzing = FALSE
  /\ inflight = 0
  /\ op = <<"mount", <<>> >>

Next ==
  \/ \E id \in R_IdInputs : R_handleDownload(id)
  \/ \E s \in R_Submissions : R_handleSubmitComment(s[1], s[2], s[3], s[4])
  \/ R_exportStats
  \/ R_toggleStats
  \/ \E ctorThrows \in BOOLEAN : R_analyzeWithGemini(ctorThrows)
  \/ \E text \in ResponseTexts : R_analyzeResolved(text)
  \/ R_analyzeRejected
  \/ \E cleared \in BOOLEAN : R_mount(cleared)
  \/ \E d \in E_DownloadInputs : E_handleDownload(d[1], d[2])
  \/ \E s \in E_Submissions : E_handleSubmit(s[1], s[2], s[3], s[4])
  \/ E_exportData
  \/ E_toggleAdmin
  \/ \E ctorThrows \in BOOLEAN : E_analyzeWithGemini(ctorThrows)
  \/ \E text \in ResponseTexts : E_analyzeResolved(text)
  \/ E_analyzeRejected
  \/ \E cleared \in BOOLEAN : E_mount(cleared)

Spec == Init /\ [][Next]_vars

\* the collaborator settles the promise of generateContent and the event
\* loop runs the continuation of analyzeWithGemini after its await
Answer ==
  \/ \E text \in ResponseTexts : R_analyzeResolved(text) \/ E_analyzeResolved(text)
  \/ R_analyzeRejected
  \/ E_analyzeRejected

\* executions in which every request issued is answered
LiveSpec == Spec /\ WF_vars(Answer)

\* ========================================================== properties
\* white-space-only or empty text
IsBlank(s) == \A i \in DOMAIN s : s[i] = " " \/ s[i] = Newline

\* positions of the resources / files carrying an id
R_Matches(id) == {i \in DOMAIN resources : resources[i].id = id}
E_Matches(expId, fileId) ==
  {p \in UNION {{<<i, j>> : j \in DOMAIN experiences[i].files} :
                  i \in DOMAIN experiences} :
     /\ experiences[p[1]].id = expId
     /\ experiences[p[1]].files[p[2]].id = fileId}

R_SameShape ==
  /\ DOMAIN resources' = DOMAIN resources
  /\ \A i \in DOMAIN resources : resources'[i].id = resources[i].id

E_SameShape ==
  /\ DOMAIN experiences' = DOMAIN experiences
  /\ \A i \in DOMAIN experiences :
       /\ experiences'[i].id = experiences[i].id
       /\ DOMAIN experiences'[i].files = DOMAIN experiences[i].files

\* a download of a resource (R) or of an item of an experience (E) that
\* exists adds 1 to that one counter and leaves every other counter as it was
R_DownloadAddsOne(id) ==
  /\ R_SameShape
  /\ \E i \in R_Matches(id) :
       /\ resources'[i].downloadCount = resources[i].downloadCount + 1
       /\ \A k \in DOMAIN resources \ {i} :
            resources'[k].downloadCount = resources[k].downloadCount

E_DownloadAddsOne(expId, fileId) ==
  /\ E_SameShape
  /\ \E p \in E_Matches(expId, fileId) :
       /\ experiences'[p[1]].files[p[2]].count
            = experiences[p[1]].files[p[2]].count + 1
       /\ \A i \in DOMAIN experiences :
            \A j \in DOMAIN experiences[i].files :
              <<i, j>> # p =>
                experiences'[i].files[j].count = experiences[i].files[j].count

\* C1: one call of the download mutation for an existing resource or item
\* increases exactly that counter by 1 and leaves every other counter,
\* in the same resource and in every other one, unchanged.
C1_DownloadIncrementsExactlyOne ==
  [][ /\ \A id \in R_IdInputs :
           (R_handleDownload(id) /\ R_Matches(id) # {}) => R_DownloadAddsOne(id)
      /\ \A d \in E_DownloadInputs :
           (E_handleDownload(d[1], d[2]) /\ E_Matches(d[1], d[2]) # {})
             => E_DownloadAddsOne(d[1], d[2]) ]_vars

\* one file downloaded twice and its sibling never
C1_Witness ==
  /\ app = "E"
  /\ op[1] = "handleDownload"
  /\ experiences[1].files[1].count = 2
  /\ experiences[1].files[2].count = 0

\* a submission the form accepts: text not blank (and, in part_000, a name
\* that is not blank, the form's other required field)
R_Accepted(newComment) == ~IsBlank(newComment)
E_Accepted(name, text) == ~IsBlank(name) /\ ~IsBlank(text)

R_CommentsOf(rs, id) == rs[CHOOSE i \in DOMAIN rs : rs[i].id = id].comments

Ids(cs) == {cs[k].id : k \in DOMAIN cs}

\* the collection grew by one, at its head, by a comment carrying text, whose
\* id none of the comments already there carries
AddedAtHeadWithFreshId(before, after, text) ==
  /\ Len(after) = Len(before) + 1
  /\ Tail(after) = before
  /\ Head(after).text = text
  /\ Head(after).id \notin Ids(before)

\* C2: every accepted comment submission makes the target collection one
\* longer, puts the new comment at its head, and gives it an id that differs
\* from the id of every comment already in that collection.
C2_AcceptedCommentHasFreshId ==
  [][ /\ \A s \in R_Submissions :
           (R_handleSubmitComment(s[1], s[2], s[3], s[4]) /\ R_Accepted(s[3])
              /\ R_Matches(s[1]) # {})
             => AddedAtHeadWithFreshId(R_CommentsOf(resources, s[1]),
                                       R_CommentsOf(resources', s[1]), s[3])
      /\ \A s \in E_Submissions :
           (E_handleSubmit(s[1], s[2], s[3], s[4]) /\ E_Accepted(s[1], s[3]))
             => AddedAtHeadWithFreshId(comments, comments', s[3]) ]_vars

\* the part of C2 the code does keep: one longer, new comment at the head
C2_AcceptedCommentAtHead ==
  [][ /\ \A s \in R_Submissions :
           (R_handleSubmitComment(s[1], s[2], s[3], s[4]) /\ R_Accepted(s[3])
              /\ R_Matches(s[1]) # {})
             => LET before == R_CommentsOf(resources, s[1])
                    after == R_CommentsOf(resources', s[1])
                IN  /\ Len(after) = Len(before) + 1
                    /\ Tail(after) = before
                    /\ Head(after).text = s[3]
      /\ \A s \in E_Submissions :
           (E_handleSubmit(s[1], s[2], s[3], s[4]) /\ E_Accepted(s[1], s[3]))
             => /\ Len(comments') = Len(comments) + 1
                /\ Tail(comments') = comments
                /\ Head(comments').text = s[3] ]_vars

\* C3: a submission whose text is empty or only white space is rejected in
\* both applications: no comment is created, every comment collection keeps
\* its length and content, and nothing new is stored.
C3_BlankCommentRejected ==
  [][ /\ \A s \in R_Submissions :
           (R_handleSubmitComment(s[1], s[2], s[3], s[4]) /\ IsBlank(s[3]))
             => resources' = resources /\ store' = store
      /\ \A s \in E_Submissions :
           (E_handleSubmit(s[1], s[2], s[3], s[4]) /\ IsBlank(s[3]))
             => comments' = comments /\ experiences' = experiences
                /\ store' = store ]_vars

\* a white-space-only text was submitted after a comment had been accepted,
\* and the collection still holds that one comment
C3_Witness ==
  /\ app = "E"
  /\ op = <<"handleSubmit", <<" ", Newline>> >>
  /\ Len(comments) = 1

\* C4: write-through persistence: after every mutation, with its persistence
\* effect, the Persistent Store holds under the catalog key (and under the
\* comments key in part_000) the serialization of the state in memory.
C4_StoreHoldsSerializedState ==
  /\ app = "R" => store[R_KEY] = Item(R_Stringify(resources))
  /\ app = "E" =>
       /\ store[E_DATA_KEY] = Item(E_StringifyExperiences(experiences))
       /\ store[E_COMMENTS_KEY] = Item(E_StringifyComments(comments))

\* downloads and comments have been made and stored
C4_Witness ==
  /\ app = "E"
  /\ op[1] = "handleSubmit"
  /\ Len(comments) = 2
  /\ experiences[3].files[3].count = 1
  /\ Len(store[E_COMMENTS_KEY].value) = 2

\* C5: at start each collection comes from the Persistent Store when a value
\* is stored under its key and from the seed (no comments in part_000)
\* otherwise; so a restart after any downloads and comments gives back the
\* catalog and the comments of just before the restart.
C5_ReloadRestoresState ==
  [][ /\ R_mount(FALSE) => resources' = resources
      /\ R_mount(TRUE) => resources' = INITIAL_RESOURCES
      /\ E_mount(FALSE) => experiences' = experiences /\ comments' = comments
      /\ E_mount(TRUE) => experiences' = INITIAL_EXPERIENCES /\ comments' = <<>> ]_vars

\* exp1-guia.pdf downloaded once, a comment with quotes made, then reloaded
C5_Witness ==
  /\ app = "E"
  /\ op[1] = "mount"
  /\ experiences[1].files[1].filename = <<"exp1-guia.pdf">>
  /\ experiences[1].files[1].count = 1
  /\ \E k \in DOMAIN comments : Quote \in {comments[k].text[n] : n \in DOMAIN comments[k].text}

\* ------------------------------------------------------------- CSV reader
\* A reader of comma-separated text in the usual dialect (RFC 4180, read as
\* leniently as Python's csv.reader): a field that starts with a quote runs
\* to the next quote that is not doubled; a doubled quote inside it is one
\* quote; a record ends at a newline outside quotes.  CsvScan consumes s and
\* returns the records, each the sequence of its fields.
RECURSIVE CsvScan(_, _, _, _, _)
CsvScan(s, mode, field, record, records) ==
  IF s = <<>>
    THEN IF mode = "record" THEN records
         ELSE Append(records, Append(record, field))
    ELSE
      LET c == Head(s)
          rest == Tail(s)
          endField == CsvScan(rest, "field", <<>>, Append(record, field), records)
          endRecord == CsvScan(rest, "record", <<>>, <<>>,
                               Append(records, Append(record, field)))
      IN CASE mode \in {"record", "field"} ->
                (CASE c = Quote -> CsvScan(rest, "quoted", <<>>, record, records)
                   [] c = Comma -> endField
                   [] c = Newline ->
                        IF mode = "record"
                          THEN CsvScan(rest, "record", <<>>, <<>>, records)
                          ELSE endRecord
                   [] OTHER -> CsvScan(rest, "unquoted", <<c>>, record, records))
           [] mode = "unquoted" ->
                (CASE c = Comma -> endField
                   [] c = Newline -> endRecord
                   [] OTHER ->
                        CsvScan(rest, "unquoted", Append(field, c), record, records))
           [] mode = "quoted" ->
                IF c = Quote
                  THEN CsvScan(rest, "quote in quoted", field, record, records)
                  ELSE CsvScan(rest, "quoted", Append(field, c), record, records)
           [] mode = "quote in quoted" ->
                (CASE c = Quote ->
                        CsvScan(rest, "quoted", Append(field, c), record, records)
                   [] c = Comma -> endField
                   [] c = Newline -> endRecord
                   [] OTHER ->
                        CsvScan(rest, "unquoted", Append(field, c), record, records))

CsvRead(text) == CsvScan(text, "record", <<>>, <<>>, <<>>)

\* a free-text value as the escaping rule renders it: every quote doubled,
\* the whole wrapped in quotes
CsvQuoted(v) ==
  <<Quote>>
    \o Concat([i \in DOMAIN v |-> IF v[i] = Quote THEN <<Quote, Quote>> ELSE <<v[i]>>])
    \o <<Quote>>

HasQuote(v) == \E i \in DOMAIN v : v[i] = Quote

\* the row of comment c ends with its text rendered by the escaping rule
TextFieldEndsRow(c) ==
  LET row == E_commentRow(c)
      f == CsvQuoted(c.text) \o <<Newline>>
  IN  /\ Len(row) >= Len(f) + 1
      /\ SubSeq(row, Len(row) - Len(f) + 1, Len(row)) = f
      /\ row[Len(row) - Len(f)] = Comma

\* the last field of the row the code renders for comment c, taken by its
\* place in the template: after the date, author and email fields
RenderedTextField(c) ==
  LET row == E_commentRow(c)
  IN  SubSeq(row, Len(c.date) + Len(c.author) + Len(c.email) + 10, Len(row) - 1)

\* C6: in the two-section export every comment text, quotes included, is
\* rendered as a field wrapped in quotes with each quote doubled, and a
\* standard CSV reader recovers the original text from it: from the field as
\* rendered, for every comment, and as the fourth field of the comment's
\* row, whenever the fields before it do not break the row themselves.
C6_CommentTextRoundTrips ==
  app = "E" =>
    \A k \in DOMAIN comments :
      LET c == comments[k] IN
        /\ TextFieldEndsRow(c)
        /\ RenderedTextField(c) = CsvQuoted(c.text)
        /\ CsvRead(RenderedTextField(c)) = << <<c.text>> >>
        /\ (~HasQuote(c.author) /\ ~HasQuote(c.email) /\ ~HasQuote(c.date))
             => CsvRead(E_commentRow(c)) = << <<c.date, c.author, c.email, c.text>> >>

\* a report was exported with a comment whose text holds quotes and a comma
C6_Witness ==
  /\ app = "E"
  /\ op[1] = "exportData"
  /\ \E k \in DOMAIN comments :
       /\ HasQuote(comments[k].text)
       /\ Comma \in {comments[k].text[n] : n \in DOMAIN comments[k].text}
       /\ ~HasQuote(comments[k].author)

\* C7: in every row of either export every free-text field (titles, file
\* names, dates, authors, emails, comment bodies) is wrapped in quotes with
\* every quote inside it doubled.
C7_FreeTextFieldsEscaped ==
  /\ app = "R" =>
       \A i \in DOMAIN resources :
         R_csvRow(resources[i])
           = <<resources[i].id, Comma>> \o CsvQuoted(resources[i].title)
               \o <<Comma, resources[i].type, Comma,
                    ToString(resources[i].downloadCount), Comma,
                    ToString(Len(resources[i].comments))>>
  /\ app = "E" =>
       /\ \A i \in DOMAIN experiences :
            \A j \in DOMAIN experiences[i].files :
              E_downloadRow(experiences[i], experiences[i].files[j])
                = CsvQuoted(experiences[i].title) \o <<Comma>>
                    \o CsvQuoted(experiences[i].files[j].filename)
                    \o <<Comma, ToString(experiences[i].files[j].count), Newline>>
       /\ \A k \in DOMAIN comments :
            E_commentRow(comments[k])
              = CsvQuoted(comments[k].date) \o <<Comma>>
                  \o CsvQuoted(comments[k].author) \o <<Comma>>
                  \o CsvQuoted(comments[k].email) \o <<Comma>>
                  \o CsvQuoted(comments[k].text) \o <<Newline>>

\* the part of C7 the code does keep: titles, file names and comment bodies
C7_TitlesAndBodiesEscaped ==
  /\ app = "R" =>
       \A i \in DOMAIN resources :
         SubSeq(R_csvRow(resources[i]), 3, 2 + Len(CsvQuoted(resources[i].title)))
           = CsvQuoted(resources[i].title)
  /\ app = "E" =>
       /\ \A i \in DOMAIN experiences :
            \A j \in DOMAIN experiences[i].files :
              E_downloadRow(experiences[i], experiences[i].files[j])
                = CsvQuoted(experiences[i].title) \o <<Comma>>
                    \o CsvQuoted(experiences[i].files[j].filename)
                    \o <<Comma, ToString(experiences[i].files[j].count), Newline>>
       /\ \A k \in DOMAIN comments : TextFieldEndsRow(comments[k])

\* C8: when an insight request fails, the displayed result becomes exactly
\* the application's fixed fallback message, the in-progress flag returns to
\* false, and no request is outstanding afterwards (no retry).
C8_FailureShowsFallback ==
  [][ /\ (R_analyzeRejected \/ R_analyzeWithGemini(TRUE))
           => aiAnalysis' = R_FALLBACK /\ ~isAnalyzing' /\ inflight' = 0
      /\ (E_analyzeRejected \/ E_analyzeWithGemini(TRUE))
           => aiAnalysis' = E_FALLBACK /\ ~isAnalyzing' /\ inflight' = 0 ]_vars

\* a request was rejected by the collaborator
C8_Witness ==
  /\ app = "E"
  /\ op[1] = "analyzeRejected"
  /\ aiAnalysis = E_FALLBACK
  /\ ~isAnalyzing

\* C9: at most one insight request is outstanding in every reachable state,
\* and whenever one is outstanding the in-progress flag is true, which
\* disables the control that would start another.
C9_AtMostOneRequest ==
  /\ inflight <= 1
  /\ inflight = 1 => isAnalyzing
  /\ isAnalyzing => ~ENABLED (R_analyzeWithGemini(FALSE) \/ E_analyzeWithGemini(FALSE))

\* a request is outstanding while a download is made
C9_Witness ==
  /\ inflight = 1
  /\ isAnalyzing
  /\ op[1] = "handleDownload"

\* the sum of a sequence of numbers, from its last element down
RECURSIVE SumDown(_)
SumDown(ns) ==
  IF Len(ns) = 0 THEN 0 ELSE ns[Len(ns)] + SumDown(SubSeq(ns, 1, Len(ns) - 1))

R_Counters == [i \in DOMAIN resources |-> resources[i].downloadCount]
E_Counters ==
  Concat([i \in DOMAIN experiences |->
            [j \in DOMAIN experiences[i].files |-> experiences[i].files[j].count]])

\* C10: the total the stats panel shows equals the sum of all individual
\* counters of the current catalog.
C10_TotalIsSumOfCounters ==
  /\ (app = "R" /\ showStats) => R_DescargasTotales(resources) = SumDown(R_Counters)
  /\ (app = "E" /\ showAdmin) => E_DescargasTotales(experiences) = SumDown(E_Counters)

\* the panel is open with downloads in two experiences
C10_Witness ==
  /\ app = "E"
  /\ showAdmin
  /\ experiences[1].files[2].count = 1
  /\ experiences[3].files[3].count = 1
  /\ E_DescargasTotales(experiences) = 2

\* C11: in index.tsx a download or an add-comment whose id matches no
\* resource is a silent no-op: the call is possible (nothing is thrown),
\* every resource keeps its downloadCount and its comments, the stored
\* value stays the same, and no failure message is shown.
C11_UnmatchedIdIsNoOp ==
  [][ /\ \A id \in R_IdInputs :
           (R_handleDownload(id) /\ R_Matches(id) = {})
             => /\ resources' = resources
                /\ store' = store
                /\ aiAnalysis' = aiAnalysis /\ isAnalyzing' = isAnalyzing
      /\ \A s \in R_Submissions :
           (R_handleSubmitComment(s[1], s[2], s[3], s[4]) /\ R_Matches(s[1]) = {})
             => /\ resources' = resources
                /\ store' = store
                /\ aiAnalysis' = aiAnalysis /\ isAnalyzing' = isAnalyzing
      /\ app = "R" =>
           /\ \A id \in R_IdInputs : R_Matches(id) = {} => ENABLED R_handleDownload(id)
           /\ \A s \in R_Submissions :
                R_Matches(s[1]) = {}
                  => ENABLED R_handleSubmitComment(s[1], s[2], s[3], s[4]) ]_vars

\* a comment was accepted, a download was made, and then an accepted text
\* was submitted for an id no resource carries
C11_Witness ==
  /\ app = "R"
  /\ op = <<"handleSubmitComment", <<"¿Dónde", " ", "está?">> >>
  /\ R_Interacciones(resources) = R_Interacciones(INITIAL_RESOURCES) + 1
  /\ R_DescargasTotales(resources) = R_DescargasTotales(INITIAL_RESOURCES) + 1

\* the author the comment just stored for submission s carries
R_StoredAuthor(s) == Head(R_CommentsOf(resources', s[1])).author

\* C12: in index.tsx every accepted comment submitted with a blank author
\* name (empty or only white space) is stored with author "Usuario", and
\* every accepted comment submitted with a non-blank author name is stored
\* with exactly that name.
C12_BlankAuthorBecomesUsuario ==
  [][ \A s \in R_Submissions :
        (R_handleSubmitComment(s[1], s[2], s[3], s[4]) /\ R_Accepted(s[3])
           /\ R_Matches(s[1]) # {})
          => R_StoredAuthor(s) = IF IsBlank(s[2]) THEN Str("Usuario") ELSE s[2] ]_vars

\* what the code does keep: an empty author name becomes "Usuario", every
\* other author name, one of white space included, is stored as it is
C12_EmptyAuthorBecomesUsuario ==
  [][ \A s \in R_Submissions :
        (R_handleSubmitComment(s[1], s[2], s[3], s[4]) /\ R_Accepted(s[3])
           /\ R_Matches(s[1]) # {})
          => R_StoredAuthor(s) = IF s[2] = <<>> THEN Str("Usuario") ELSE s[2] ]_vars

\* a reload that finds the store emptied from outside the application
StoreWasCleared == R_mount(TRUE) \/ E_mount(TRUE)

\* the counters of the running application, in catalog order
Counters == IF app = "R" THEN R_Counters ELSE E_Counters

\* C13: along every execution each download counter never decreases, and a
\* step that changes a counter is a download: add-comment, CSV export, the
\* start, completion and failure of an insight request, the panel toggles
\* (and a reload from the store) leave all counters as they were.
C13_CountersOnlyGrowByDownload ==
  [][ \/ UNCHANGED <<resources, experiences>>   \* no counter can have changed
      \/ /\ LET before == Counters
                after == Counters'
            IN  /\ Len(after) = Len(before)
                /\ \A n \in DOMAIN before : after[n] >= before[n]
         /\ Counters' # Counters
              => /\ \/ \E id \in R_IdInputs : R_handleDownload(id)
                    \/ \E d \in E_DownloadInputs : E_handleDownload(d[1], d[2])
                 /\ ~ \/ \E s \in R_Submissions :
                            R_handleSubmitComment(s[1], s[2], s[3], s[4])
                      \/ \E s \in E_Submissions :
                            E_handleSubmit(s[1], s[2], s[3], s[4])
                      \/ R_exportStats \/ E_exportData
                      \/ R_toggleStats \/ E_toggleAdmin
                      \/ \E c \in BOOLEAN :
                            R_analyzeWithGemini(c) \/ E_analyzeWithGemini(c)
                      \/ \E text \in ResponseTexts :
                            R_analyzeResolved(text) \/ E_analyzeResolved(text)
                      \/ R_analyzeRejected \/ E_analyzeRejected
                      \/ R_mount(FALSE) \/ E_mount(FALSE)
      \/ StoreWasCleared ]_vars

\* two downloads of one resource, then a comment on it, then a failed request
C13_Witness ==
  /\ app = "R"
  /\ op[1] = "analyzeRejected"
  /\ resources[1].downloadCount = INITIAL_RESOURCES[1].downloadCount + 2
  /\ Len(resources[1].comments) = Len(INITIAL_RESOURCES[1].comments) + 1

\* the comment collections of the running application: one per resource in
\* index.tsx, the single global one in part_000
Collections ==
  IF app = "R" THEN [i \in DOMAIN resources |-> resources[i].comments]
               ELSE <<comments>>

\* the comments each collection starts with
SeedCollections ==
  IF app = "R" THEN [i \in DOMAIN INITIAL_RESOURCES |-> INITIAL_RESOURCES[i].comments]
               ELSE << <<>> >>

IsSuffix(old, new) ==
  /\ Len(old) <= Len(new)
  /\ SubSeq(new, Len(new) - Len(old) + 1, Len(new)) = old

\* the comment the accepted submission s creates in index.tsx / part_000
R_CreatedBy(s) == R_newComment(s[3], s[2], s[4])
E_CreatedBy(s) == E_newComment(s[1], s[2], s[3], s[4], env)

\* C14: comments are append-only and newest-first: across every step each
\* comment present before is still present after with the same fields and in
\* the same order; a new comment only enters at the head of its collection,
\* so that the collection after an accepted submission is the new comment
\* followed by what was there; and the comments a collection started with
\* stay last, after all the ones submitted since.
C14_CommentsAppendOnlyNewestFirst ==
  /\ [](\A n \in DOMAIN Collections : IsSuffix(SeedCollections[n], Collections[n]))
  /\ [][ \/ UNCHANGED <<resources, comments>>   \* no collection can have changed
         \/ LET before == Collections
                after == Collections'
            IN  /\ DOMAIN after = DOMAIN before
                /\ \A n \in DOMAIN before :
                     \/ after[n] = before[n]
                     \/ /\ Len(after[n]) = Len(before[n]) + 1
                        /\ Tail(after[n]) = before[n]
                        /\ \/ \E s \in R_Submissions :
                                /\ R_handleSubmitComment(s[1], s[2], s[3], s[4])
                                /\ resources[n].id = s[1]
                                /\ Head(after[n]) = R_CreatedBy(s)
                           \/ \E s \in E_Submissions :
                                /\ E_handleSubmit(s[1], s[2], s[3], s[4])
                                /\ Head(after[n]) = E_CreatedBy(s)
         \/ StoreWasCleared ]_vars

\* two comments accepted on one resource: the later one first, then the
\* earlier one, then the comment the resource started with
C14_Witness ==
  /\ app = "R"
  /\ op[1] = "handleSubmitComment"
  /\ Len(resources[1].comments) = 3
  /\ resources[1].comments[1].text = <<"Muy útil">>
  /\ resources[1].comments[2].text = <<" ", "Muy útil", " ">>
  /\ resources[1].comments[3] = INITIAL_RESOURCES[1].comments[1]

\* a step of the report generator
ExportStep == R_exportStats \/ E_exportData

\* a step of the insight requester: a request started (or failing at once),
\* resolved or rejected
InsightStep ==
  \/ \E c \in BOOLEAN : R_analyzeWithGemini(c) \/ E_analyzeWithGemini(c)
  \/ \E text \in ResponseTexts : R_analyzeResolved(text) \/ E_analyzeResolved(text)
  \/ R_analyzeRejected \/ E_analyzeRejected

\* the text an export of the state would produce
ExportOf(rs, es, cs) ==
  EncodeURI(IF app = "R" THEN R_csvContent(rs) ELSE E_csvContent(es, cs))

\* C15: the report generator and the insight requester only read: a CSV
\* export, and the start, completion or failure of an insight request, leave
\* the catalog, the comments and the Persistent Store as they were; the text
\* an export produces is the one computed from that state, so an export made
\* after any of these steps produces the same text as one made before.
C15_ExportAndInsightReadOnly ==
  [][ /\ (op'[1] \in {"exportStats", "exportData"} /\ ExportStep)
           => /\ UNCHANGED <<resources, experiences, comments, store>>
              /\ op'[2] = ExportOf(resources, experiences, comments)
              /\ op'[2] = ExportOf(resources', experiences', comments')
      /\ (op'[1] \in {"analyzeWithGemini", "analyzeResolved", "analyzeRejected"}
           /\ InsightStep)
           => /\ UNCHANGED <<resources, experiences, comments, store>>
              /\ ExportOf(resources', experiences', comments')
                   = ExportOf(resources, experiences, comments) ]_vars

\* a report exported after a download, a comment and an answered request
C15_Witness ==
  /\ app = "E"
  /\ op[1] = "exportData"
  /\ op[2] = EncodeURI(E_csvContent(experiences, comments))
  /\ aiAnalysis \in ResponseTexts \ {Undefined}
  /\ Len(comments) = 1
  /\ experiences[1].files[1].count = 1

\* the download and comment bounds of the model leave room for one more
RoomForDownload ==
  IF app = "R"
    THEN R_DescargasTotales(resources)
           < R_DescargasTotales(INITIAL_RESOURCES) + MaxDownloads
    ELSE E_DescargasTotales(experiences)
           < E_DescargasTotales(INITIAL_EXPERIENCES) + MaxDownloads

RoomForComment ==
  IF app = "R"
    THEN R_Interacciones(resources)
           < R_Interacciones(INITIAL_RESOURCES) + MaxComments
    ELSE Len(comments) < MaxComments

\* a download of an existing resource or item, an accepted comment
SomeDownload ==
  \/ \E id \in R_IdInputs : R_Matches(id) # {} /\ R_handleDownload(id)
  \/ \E d \in E_DownloadInputs :
       E_Matches(d[1], d[2]) # {} /\ E_handleDownload(d[1], d[2])

SomeAcceptedComment ==
  \/ \E s \in R_Submissions :
       /\ R_Accepted(s[3]) /\ R_Matches(s[1]) # {}
       /\ R_handleSubmitComment(s[1], s[2], s[3], s[4])
  \/ \E s \in E_Submissions :
       E_Accepted(s[1], s[3]) /\ E_handleSubmit(s[1], s[2], s[3], s[4])

\* what the store holds is the serialization of the state after the step
PersistedAfter ==
  IF app = "R"
    THEN store'[R_KEY] = Item(R_Stringify(resources'))
    ELSE /\ store'[E_DATA_KEY] = Item(E_StringifyExperiences(experiences'))
         /\ store'[E_COMMENTS_KEY] = Item(E_StringifyComments(comments'))

\* C16: while an insight request is outstanding, downloads and comments stay
\* possible, take full effect (the counter one higher, the collection one
\* longer) and are persisted; the completion or the failure of the request
\* changes neither the catalog nor the comments nor what is stored, so no
\* mutation made in the meantime is reverted, overwritten or lost.
C16_MutationsDuringRequestKept ==
  /\ []((inflight = 1 /\ RoomForDownload) => ENABLED SomeDownload)
  /\ []((inflight = 1 /\ RoomForComment) => ENABLED SomeAcceptedComment)
  /\ [][ inflight = 1 =>
           /\ (op'[1] = "handleDownload" /\ SomeDownload)
                => /\ SumDown(Counters') = SumDown(Counters) + 1
                   /\ PersistedAfter
                   /\ UNCHANGED <<inflight, isAnalyzing, aiAnalysis>>
           /\ (op'[1] \in {"handleSubmitComment", "handleSubmit"}
                /\ SomeAcceptedComment)
                => /\ \E n \in DOMAIN Collections :
                        /\ Len(Collections'[n]) = Len(Collections[n]) + 1
                        /\ Tail(Collections'[n]) = Collections[n]
                   /\ PersistedAfter
                   /\ UNCHANGED <<inflight, isAnalyzing, aiAnalysis>>
           /\ (op'[1] \in {"analyzeResolved", "analyzeRejected"} /\ InsightStep)
                => /\ UNCHANGED <<resources, experiences, comments, store>>
                   /\ PersistedAfter ]_vars

\* a comment was accepted and stored while a request was outstanding and
\* the report panel showed a download made before
C16_Witness ==
  /\ app = "E"
  /\ inflight = 1
  /\ op = <<"handleSubmit", <<"Muy útil">> >>
  /\ Len(comments) = 1
  /\ experiences[1].files[2].count = 1
  /\ store[E_COMMENTS_KEY] = Item(E_StringifyComments(comments))

\* the panel has a result to show: {aiAnalysis && ...} renders a string that
\* is not empty, and nothing for null, undefined or the empty string
ResultHeld == aiAnalysis[1] = "string" /\ Truthy(aiAnalysis[2])

\* the page was loaded again, which drops the request with the page
Reloaded == op[1] = "mount"

\* C17: every insight request issued, once the collaborator resolves or
\* rejects it, leads to a state in which the in-progress flag is false and a
\* result is held for display: the returned text on success, the fallback
\* message on failure (or the page was reloaded meanwhile and the request
\* went with it).
C17_AnsweredRequestShowsResult ==
  (inflight = 1) ~> (Reloaded \/ (~isAnalyzing /\ inflight = 0 /\ ResultHeld))

\* what the code does keep: once the collaborator has answered, the
\* in-progress flag is false and no request is outstanding
C17_AnsweredRequestClearsFlag ==
  (inflight = 1) ~> (~isAnalyzing /\ inflight = 0)

\* no two positions of a sequence of records carry the same id
DistinctIds(xs) ==
  \A i, j \in DOMAIN xs : xs[i].id = xs[j].id => i = j

\* a resource of index.tsx is the seed resource at its position in all but
\* its counter and its comments
R_StructureOf(r, seed) ==
  [r EXCEPT !.downloadCount = seed.downloadCount, !.comments = seed.comments] = seed

\* an experience of part_000 is the seed experience at its position in all
\* but the counters of its files
E_StructureOf(e, seed) ==
  /\ Len(e.files) = Len(seed.files)
  /\ [e EXCEPT !.files = [j \in DOMAIN e.files |->
                            [e.files[j] EXCEPT !.count = seed.files[j].count]]] = seed

\* C18: the catalog structure is stable: in every reachable state the
\* resource ids are pairwise distinct and so are the item ids within each
\* resource, and the catalog is the one the page started with, resource by
\* resource and item by item, in the same order and under the same ids and
\* names; only counters and comment lists differ.
C18_CatalogStructureStable ==
  /\ app = "R" =>
       /\ DistinctIds(resources)
       /\ Len(resources) = Len(INITIAL_RESOURCES)
       /\ \A i \in DOMAIN resources : R_StructureOf(resources[i], INITIAL_RESOURCES[i])
  /\ app = "E" =>
       /\ DistinctIds(experiences)
       /\ Len(experiences) = Len(INITIAL_EXPERIENCES)
       /\ \A i \in DOMAIN experiences :
            /\ DistinctIds(experiences[i].files)
            /\ E_StructureOf(experiences[i], INITIAL_EXPERIENCES[i])

\* a resource downloaded and commented on, then a report exported
C18_Witness ==
  /\ app = "R"
  /\ op[1] = "exportStats"
  /\ resources[3].downloadCount = INITIAL_RESOURCES[3].downloadCount + 1
  /\ Len(resources[3].comments) = 1
  /\ resources[3].id = "3"

====
